---- MODULE Spec2Model ----
(***************************************************************************)
(* Entropy injection for Falcon-512: the thread-local fill slot of         *)
(* randombytes_kmac.c and the three wrappers of falcon_shim.c.             *)
(*                                                                         *)
(* The PQClean routines and the caller's fill functions are not part of    *)
(* the two source files.  The routines are modelled by their contract      *)
(* (deterministic in their arguments and in the bytes randombytes hands    *)
(* them); a fill function is a deterministic byte generator whose position *)
(* lives in the context that calls it.                                     *)
(***************************************************************************)
EXTENDS Integers, Sequences, FiniteSets, TLC

VARIABLES
    tls_fill,  \* randombytes_kmac.c:7-11, the slot of each thread
    gen,       \* per thread, the position of each fill function's generator
    inst,      \* per thread, the argument of its last set ("none" before any)
    pc,        \* per thread, the wrapper statement it stands at (0: in no call)
    call,      \* per thread, the arguments of the wrapper call in progress
    tr,        \* per thread, the buffers its PQClean routine has received
    act,       \* the last call or callback made, and its effect
    pin        \* the keypair run an observer keeps for comparison

vars == <<tls_fill, gen, inst, pc, call, tr, act, pin>>

----------------------------------------------------------------------------
(* Bounds *)

MaxByte == 2
NonceLen == 1
SeedLen == 2

Byte == 0..MaxByte
BufCap == SeedLen + 1
Buffers == {[i \in 1..BufCap |-> j] : j \in Byte}
Lens == 0..BufCap

Threads == {"A", "B"}

----------------------------------------------------------------------------
\* Fill functions: the values the function pointer tls_fill can take

NULL == "NULL"
FillFns == {"f1", "f2", "fz", "f1b"}
\* the fill functions that call back into the shim while they run: fs calls
\* tt_set_randombytes, fk makes a seeded sign call of its own
ReentrantFns == {"fs", "fk"}
Fill == {NULL, "f1", "f2", "fz"}

\* the byte stream a fill function produces, repeated for ever
StreamOf(f) ==
    CASE f = "f1" -> <<1, 2>>
      [] f = "f2" -> <<2>>
      [] f = "fz" -> <<0>>
      [] f = "f1b" -> <<2, 1>>
      [] f = "fs" -> <<1>>
      [] f = "fk" -> <<1>>

\* f called with (buf, n) when its generator stands at p
FillWrite(f, p, buf, n) ==
    LET s == StreamOf(f)
    IN  [buf |-> [i \in 1..BufCap |->
                    IF i <= n THEN s[((p + i - 1) % Len(s)) + 1] ELSE buf[i]],
         pos |-> (p + n) % Len(s)]

GenInit == [f \in FillFns \cup ReentrantFns |-> 0]

----------------------------------------------------------------------------
(* randombytes_kmac.c *)

\* what running fill function f does to the caller's slot and generators
\* besides writing bytes (defined with the fill functions' own calls, below)
RECURSIVE FillEffect(_, _, _)

\* line 16: the call through the pointer
CallFill(slot, g, out, outlen) ==
    LET w == FillWrite(slot, g[slot], out, outlen)
        e == FillEffect(slot, slot, [g EXCEPT ![slot] = w.pos])
    IN  [out     |-> w.buf,
         gen     |-> e.gen,
         invoked |-> << <<slot, out, outlen>> >>,
         slot    |-> e.slot,
         did     |-> e.did]

\* lines 20-22: the zero loop, writing out[0..n-1]
ZeroFill(slot, g, out, n) ==
    [out     |-> [i \in 1..BufCap |-> IF i <= n THEN 0 ELSE out[i]],
     gen     |-> g,
     invoked |-> << >>,
     slot    |-> slot,
     did     |-> << >>]

\* the zero loop running one byte too far
randombytes_overrun(slot, g, out, outlen) ==
    IF slot # NULL
    THEN CallFill(slot, g, out, outlen)
    ELSE ZeroFill(slot, g, out, outlen + 1)

\* the zero loop stopping one byte early
randombytes_short(slot, g, out, outlen) ==
    IF slot # NULL
    THEN CallFill(slot, g, out, outlen)
    ELSE ZeroFill(slot, g, out, outlen - 1)

\* the else missing: the zero loop runs after the fill function too
randombytes_no_else(slot, g, out, outlen) ==
    IF slot # NULL
    THEN LET w == CallFill(slot, g, out, outlen)
         IN  [w EXCEPT !.out = ZeroFill(slot, g, w.out, outlen).out]
    ELSE ZeroFill(slot, g, out, outlen)

\* the null check missing: the pointer is called whatever it holds
randombytes_unchecked(slot, g, out, outlen) ==
    IF slot # NULL
    THEN CallFill(slot, g, out, outlen)
    ELSE [ZeroFill(slot, g, out, 0) EXCEPT !.invoked = << <<slot, out, outlen>> >>]

\* the slot cleared once it has served a request
randombytes_oneshot(slot, g, out, outlen) ==
    IF slot # NULL
    THEN [CallFill(slot, g, out, outlen) EXCEPT !.slot = NULL]
    ELSE ZeroFill(slot, g, out, outlen)

\* the slot saved before the call through the pointer and restored after it
randombytes_restore(slot, g, out, outlen) ==
    IF slot # NULL
    THEN [CallFill(slot, g, out, outlen) EXCEPT !.slot = slot]
    ELSE ZeroFill(slot, g, out, outlen)

\* void randombytes(uint8_t* out, size_t outlen), run in a context whose
\* tls_fill is slot and whose generators stand at g
randombytes(slot, g, out, outlen) ==
    IF slot # NULL
    THEN CallFill(slot, g, out, outlen)
    ELSE ZeroFill(slot, g, out, outlen)

\* an implementation of its own that never looks at the slot
PQCLEAN_randombytes_own(slot, g, out, outlen) == ZeroFill(slot, g, out, outlen)

PQCLEAN_randombytes(slot, g, out, outlen) == randombytes(slot, g, out, outlen)

EntryPoints == {"randombytes", "PQCLEAN_randombytes"}

Entry(name, slot, g, out, outlen) ==
    IF name = "randombytes"
    THEN randombytes(slot, g, out, outlen)
    ELSE PQCLEAN_randombytes(slot, g, out, outlen)

\* the slot as one process-wide global instead of a thread-local
tt_set_randombytes_global(slots, t, fill_fn) == [u \in DOMAIN slots |-> fill_fn]

\* a set that keeps the function already installed
tt_set_randombytes_keep_first(slots, t, fill_fn) ==
    IF slots[t] = NULL THEN [slots EXCEPT ![t] = fill_fn] ELSE slots

\* void tt_set_randombytes(fill_fn), called on thread t
tt_set_randombytes(slots, t, fill_fn) == [slots EXCEPT ![t] = fill_fn]

----------------------------------------------------------------------------
(* The PQClean routines, by their contract *)

Messages == {"hello", "hellp"}
Keys == {"good", "bad"}
Seeded == {"keypair", "sign"}
Done == -1

\* the buffer a routine hands to randombytes, before it is written
Scratch == [i \in 1..BufCap |-> MaxByte]

\* runs counts the invocations of the PQClean routine made by the call; re is
\* the last function a fill function installed while the call was running
NoCall == [op |-> "none", fn |-> NULL, m |-> "-", key |-> "-", sig |-> "-",
           gen0 |-> GenInit, entry |-> NULL, runs |-> 0, re |-> "none"]

\* length of the routine's next request, given the buffers r it has received
OpaqueNext(c, r) ==
    CASE c.op = "keypair" ->
            IF Len(r) = 0 THEN SeedLen
            ELSE IF Len(r) = 1 /\ r[1][1] % 2 = 1 THEN 1
            ELSE Done
      [] c.op = "sign" ->
            IF c.key = "bad" THEN Done
            ELSE IF Len(r) = 0 THEN NonceLen
            ELSE IF Len(r) = 1 THEN SeedLen
            ELSE Done
      [] OTHER -> Done

RECURSIVE Flat(_)
Flat(r) == IF r = << >> THEN << >> ELSE Head(r) \o Flat(Tail(r))

\* what the routine writes to its output arguments, and its status
OpaqueResult(c, r) ==
    CASE c.op = "keypair" ->
            [status |-> 0, out |-> <<"pk", Flat(r), "sk", Flat(r)>>]
      [] c.op = "sign" ->
            IF c.key = "bad" THEN [status |-> -1, out |-> << >>]
            ELSE [status |-> 0, out |-> <<"sig", c.m, Flat(r), Len(Flat(r))>>]
      [] OTHER ->
            [status |-> IF c.sig = c.m /\ c.key = "good" THEN 0 ELSE -1,
             out |-> << >>]

----------------------------------------------------------------------------
(* falcon_shim.c: the statements of each wrapper, in program order *)

\* the sign wrapper handing the routine the wrong message
Passed_fixed_message(c) ==
    [op |-> c.op, m |-> IF c.op = "sign" THEN "hello" ELSE c.m, key |-> c.key,
     sig |-> c.sig]

\* the arguments a wrapper hands to its PQClean routine: the caller's own
Passed(c) == [op |-> c.op, m |-> c.m, key |-> c.key, sig |-> c.sig]

\* the status normalised to 0 / 1 instead of handed on
ReturnOf_flag(status) == IF status = 0 THEN 0 ELSE 1

\* the value a wrapper returns, given the status of its PQClean routine
ReturnOf(status) == status

\* the routine called before the fill function is installed
KeypairBody_late == <<"opaque", "set">>

\* the installation forgotten
KeypairBody_noset == <<"opaque">>

KeypairBody == <<"set", "opaque">>

\* the wrapper calling its routine once more after the first call
SignBody_retry == <<"set", "opaque", "set", "opaque">>

SignBody == <<"set", "opaque">>

\* verify resetting the slot like the two seeded wrappers
VerifyBody_set == <<"set", "opaque">>

VerifyBody == <<"opaque">>

Body(op) ==
    CASE op = "keypair" -> KeypairBody
      [] op = "sign" -> SignBody
      [] OTHER -> VerifyBody

\* run the wrapper of thread t from statement k up to its next call of the
\* PQClean routine, or to its end
RECURSIVE RunSets(_, _, _, _, _, _)
RunSets(body, k, slots, t, fn, did) ==
    IF k <= Len(body) /\ body[k] = "set"
    THEN RunSets(body, k + 1, tt_set_randombytes(slots, t, fn), t, fn,
                 Append(did, fn))
    ELSE [pc |-> k, slots |-> slots, did |-> did]

----------------------------------------------------------------------------
(* State *)

NoBuf == << >>
NoRes == [status |-> 0, out |-> << >>]

Event(kind, t, c) ==
    [kind |-> kind, t |-> t, c |-> c, name |-> "-", len |-> 0, pre |-> NoBuf,
     out |-> NoBuf, invoked |-> << >>, res |-> NoRes, tr |-> << >>,
     args |-> Passed(NoCall), ret |-> 0]

\* An observer may keep the first keypair run it chooses to watch: its fill
\* function and generator position, the slot it found, what it returned, and
\* whether the latest keypair call found another slot value than it did.
NoPin == [phase |-> "off", fn |-> NULL, p |-> 0, was |-> NULL, diff |-> FALSE,
          res |-> NoRes]

Init ==
    /\ tls_fill = [t \in Threads |-> NULL]
    /\ gen = [t \in Threads |-> GenInit]
    /\ inst = [t \in Threads |-> "none"]
    /\ pc = [t \in Threads |-> 0]
    /\ call = [t \in Threads |-> NoCall]
    /\ tr = [t \in Threads |-> << >>]
    /\ act = Event("init", "A", NoCall)
    /\ pin = NoPin

ObserveCall(t, c) ==
    IF pin.phase # "off" /\ c.op = "keypair"
    THEN \/ /\ pin.phase = "none"
            /\ c.fn # NULL
            /\ pin' = [pin EXCEPT !.phase = "open", !.fn = c.fn,
                                  !.p = c.gen0[c.fn], !.was = tls_fill[t]]
         \/ pin' = [pin EXCEPT !.diff = (tls_fill[t] # pin.was)]
    ELSE pin' = pin

ObserveReturn(res) ==
    IF pin.phase = "open"
    THEN pin' = [pin EXCEPT !.phase = "done", !.res = res]
    ELSE pin' = pin

\* a direct call of tt_set_randombytes on an idle thread
Set(t, f) ==
    /\ pc[t] = 0
    /\ tls_fill' = tt_set_randombytes(tls_fill, t, f)
    /\ inst' = [inst EXCEPT ![t] = f]
    /\ act' = [Event("set", t, NoCall) EXCEPT !.c.fn = f]
    /\ UNCHANGED <<gen, pc, call, tr, pin>>

\* a direct call of randombytes or PQCLEAN_randombytes on an idle thread
DirectFill(t, name, out, outlen) ==
    /\ pc[t] = 0
    /\ LET r == Entry(name, tls_fill[t], gen[t], out, outlen)
       IN  /\ gen' = [gen EXCEPT ![t] = r.gen]
           /\ tls_fill' = [tls_fill EXCEPT ![t] = r.slot]
           /\ inst' = IF r.did = << >> THEN inst
                      ELSE [inst EXCEPT ![t] = r.did[Len(r.did)]]
           /\ act' = [Event("fill", t, NoCall) EXCEPT
                        !.name = name, !.len = outlen, !.pre = out,
                        !.out = r.out, !.invoked = r.invoked]
    /\ UNCHANGED <<pc, call, tr, pin>>

\* entry into a wrapper with the arguments c, up to the PQClean routine
Enter(t, c0) ==
    /\ LET r == RunSets(Body(c0.op), 1, tls_fill, t, c0.fn, << >>)
           c == [c0 EXCEPT !.gen0 = gen[t], !.entry = r.slots[t],
                           !.runs = IF r.pc <= Len(Body(c0.op)) THEN 1 ELSE 0]
       IN  /\ tls_fill' = r.slots
           /\ inst' = IF r.did = << >> THEN inst
                      ELSE [inst EXCEPT ![t] = r.did[Len(r.did)]]
           /\ pc' = [pc EXCEPT ![t] = r.pc]
           /\ call' = [call EXCEPT ![t] = c]
           /\ tr' = [tr EXCEPT ![t] = << >>]
           /\ act' = Event("call", t, c)
           /\ ObserveCall(t, c)
    /\ UNCHANGED gen

\* each wrapper is called on a thread that is in no call
tt_falcon512_keypair_seeded(t, fill_fn) ==
    /\ pc[t] = 0
    /\ Enter(t, [NoCall EXCEPT !.op = "keypair", !.fn = fill_fn])

tt_falcon512_sign_seeded(t, m, sk, fill_fn) ==
    /\ pc[t] = 0
    /\ Enter(t, [NoCall EXCEPT !.op = "sign", !.fn = fill_fn, !.m = m,
                                !.key = sk])

tt_falcon512_verify(t, sig, m, pk) ==
    /\ pc[t] = 0
    /\ Enter(t, [NoCall EXCEPT !.op = "verify", !.sig = sig, !.m = m,
                                !.key = pk])

InOpaque(t) ==
    /\ pc[t] # 0
    /\ pc[t] <= Len(Body(call[t].op))
    /\ Body(call[t].op)[pc[t]] = "opaque"

\* the PQClean routine running on thread t asks for its next bytes
Callback(t, name) ==
    /\ InOpaque(t)
    /\ OpaqueNext(Passed(call[t]), tr[t]) # Done
    /\ LET n == OpaqueNext(Passed(call[t]), tr[t])
           r == Entry(name, tls_fill[t], gen[t], Scratch, n)
       IN  /\ gen' = [gen EXCEPT ![t] = r.gen]
           /\ tls_fill' = [tls_fill EXCEPT ![t] = r.slot]
           /\ inst' = IF r.did = << >> THEN inst
                      ELSE [inst EXCEPT ![t] = r.did[Len(r.did)]]
           /\ call' = IF r.did = << >> THEN call
                      ELSE [call EXCEPT ![t].re = r.did[Len(r.did)]]
           /\ tr' = [tr EXCEPT ![t] = Append(@, SubSeq(r.out, 1, n))]
           /\ act' = [Event("fill", t, call[t]) EXCEPT
                        !.name = name, !.len = n, !.pre = Scratch,
                        !.out = r.out, !.invoked = r.invoked]
    /\ UNCHANGED <<pc, pin>>

\* the PQClean routine returns; the wrapper runs on to its next call of the
\* routine if it has one, and otherwise returns the routine's status
Return(t) ==
    /\ pc[t] # 0
    /\ InOpaque(t) => OpaqueNext(Passed(call[t]), tr[t]) = Done
    /\ LET r == RunSets(Body(call[t].op), pc[t] + 1, tls_fill, t, call[t].fn, << >>)
           res == OpaqueResult(Passed(call[t]), tr[t])
       IN  /\ tls_fill' = r.slots
           /\ inst' = IF r.did = << >> THEN inst
                      ELSE [inst EXCEPT ![t] = r.did[Len(r.did)]]
           /\ IF r.pc > Len(Body(call[t].op))
              THEN /\ act' = [Event("return", t, call[t]) EXCEPT
                                !.res = res, !.tr = tr[t],
                                !.args = Passed(call[t]),
                                !.ret = ReturnOf(res.status)]
                   /\ ObserveReturn(res)
                   /\ pc' = [pc EXCEPT ![t] = 0]
                   /\ call' = [call EXCEPT ![t] = NoCall]
              ELSE /\ act' = Event("call", t, call[t])
                   /\ pin' = pin
                   /\ pc' = [pc EXCEPT ![t] = r.pc]
                   /\ call' = [call EXCEPT ![t].runs = @ + 1,
                                           ![t].entry = r.slots[t]]
    /\ tr' = [tr EXCEPT ![t] = << >>]
    /\ UNCHANGED gen

Step(t, fns, bufs, pks) ==
    \/ \E f \in fns : Set(t, f)
    \/ \E name \in EntryPoints, out \in bufs, outlen \in Lens :
            DirectFill(t, name, out, outlen)
    \/ \E f \in fns : tt_falcon512_keypair_seeded(t, f)
    \/ \E m \in Messages, sk \in Keys, f \in fns :
            tt_falcon512_sign_seeded(t, m, sk, f)
    \/ \E sig \in Messages, m \in Messages, pk \in pks :
            tt_falcon512_verify(t, sig, m, pk)
    \/ \E name \in EntryPoints : Callback(t, name)
    \/ Return(t)

\* two threads, each making any call at any time
Next == \E t \in Threads : Step(t, Fill, {Scratch}, {"good"})

Spec == Init /\ [][Next]_vars

----------------------------------------------------------------------------
(* One context making call after call, watched by the observer *)

InitOne ==
    /\ tls_fill = [t \in Threads |-> NULL]
    /\ gen = [t \in Threads |-> GenInit]
    /\ inst = [t \in Threads |-> "none"]
    /\ pc = [t \in Threads |-> 0]
    /\ call = [t \in Threads |-> NoCall]
    /\ tr = [t \in Threads |-> << >>]
    /\ act = Event("init", "A", NoCall)
    /\ pin = [NoPin EXCEPT !.phase = "none"]

NextOne == Step("A", FillFns \cup {NULL}, {Scratch}, {"good"})

SpecOne == InitOne /\ [][NextOne]_vars

\* one context whose fill functions may call back into the shim
NextRe == Step("A", Fill \cup ReentrantFns, {Scratch}, {"good"})

SpecRe == Init /\ [][NextRe]_vars

\* byte i (from 0) of what f produces from generator position p on
StreamByte(f, p, i) == StreamOf(f)[((p + i) % Len(StreamOf(f))) + 1]

\* f from position p and g from position q produce the same bytes for ever
IdenticalStreams(f, p, g, q) ==
    /\ f \in FillFns
    /\ g \in FillFns
    /\ \A i \in 0..(Len(StreamOf(f)) * Len(StreamOf(g)) - 1) :
          StreamByte(f, p, i) = StreamByte(g, q, i)

----------------------------------------------------------------------------
(* Reference: one wrapper call run to its end in a context of its own *)

RECURSIVE SeqOpaque(_, _, _, _)
SeqOpaque(c, slot, g, r) ==
    IF OpaqueNext(Passed(c), r) = Done
    THEN [res |-> OpaqueResult(Passed(c), r), tr |-> r, gen |-> g, slot |-> slot]
    ELSE LET n == OpaqueNext(Passed(c), r)
             w == randombytes(slot, g, Scratch, n)
         IN  SeqOpaque(c, w.slot, w.gen, Append(r, SubSeq(w.out, 1, n)))

\* fs calls tt_set_randombytes(f2); fk calls tt_falcon512_sign_seeded with
\* f1 and lets it run to its end; the other fill functions only write bytes
FillEffect(f, slot, g) ==
    CASE f = "fs" ->
            [slot |-> tt_set_randombytes([x \in {"own"} |-> slot], "own", "f2")["own"],
             gen  |-> g,
             did  |-> <<"f2">>]
      [] f = "fk" ->
            LET c == [NoCall EXCEPT !.op = "sign", !.fn = "f1", !.m = "hello",
                                     !.key = "good", !.gen0 = g]
                own == RunSets(Body("sign"), 1, [x \in {"own"} |-> slot],
                               "own", "f1", << >>)
                run == SeqOpaque(c, own.slots["own"], g, << >>)
            IN  [slot |-> run.slot, gen |-> run.gen, did |-> own.did]
      [] OTHER -> [slot |-> slot, gen |-> g, did |-> << >>]

SeqRun(c) ==
    LET own == RunSets(Body(c.op), 1, [t \in {"own"} |-> NULL], "own", c.fn, << >>)
    IN  SeqOpaque(c, own.slots["own"], c.gen0, << >>)

\* who served a fill request: the function invoked, or the zero fallback
Server(e) == IF e.invoked = << >> THEN "zero" ELSE e.invoked[1][1]

Other(t) == CHOOSE u \in Threads : u # t

----------------------------------------------------------------------------
(* Claims *)

\* C1: per-context isolation.  A step of thread a (a set, a seeded call, a
\* randombytes call) never changes the slot of another thread b, and a fill
\* request made on thread a is served by the function a itself installed
\* last, by the zero fallback when a installed none or installed NULL, and
\* never by a function only another thread installed.
C1_PerContextIsolation ==
    [][\A a \in Threads :
          act'.t = a =>
            /\ \A b \in Threads \ {a} : tls_fill'[b] = tls_fill[b]
            /\ act'.kind = "fill" =>
                 /\ Len(act'.invoked) <= 1
                 /\ Server(act') = IF inst[a] \in {"none", NULL}
                                   THEN "zero" ELSE inst[a]]_vars

C1_Witness ==
    /\ act.kind = "fill"
    /\ inst[act.t] \in FillFns
    /\ inst[Other(act.t)] \in FillFns \ {inst[act.t]}
    /\ Server(act) = inst[act.t]
    /\ pc[Other(act.t)] # 0

\* C2: parallel equals sequential.  Whatever the other context does in
\* between, a seeded keypair or sign call returns exactly the outputs and
\* status that the same call returns when it runs alone, from the same
\* generator position, in a context of its own.
C2_ParallelEqualsSequential ==
    (act.kind = "return" /\ act.c.op \in Seeded) =>
        act.res = SeqRun(act.c).res

C2_Witness ==
    /\ act.kind = "return"
    /\ act.c.op \in Seeded
    /\ act.c.fn \in FillFns
    /\ Len(act.tr) >= 2
    /\ pc[Other(act.t)] # 0
    /\ call[Other(act.t)].op \in Seeded
    /\ call[Other(act.t)].fn \in FillFns \ {act.c.fn}
    /\ tr[Other(act.t)] # << >>

\* C3: install before invoke.  While the PQClean routine of a seeded call
\* with fill function f runs, the slot of the calling context was set to f
\* before the routine was entered: the slot held f at entry, the last set of
\* the context installed f, and every callback of the call comes after it.
C3_InstallBeforeInvoke ==
    /\ \A t \in Threads :
          (InOpaque(t) /\ call[t].op \in Seeded) =>
              /\ call[t].entry = call[t].fn
              /\ inst[t] = call[t].fn
    /\ (act.kind = "fill" /\ act.c.op \in Seeded) =>
          /\ act.c.entry = act.c.fn
          /\ inst[act.t] = act.c.fn

C3_Witness ==
    /\ act.kind = "fill"
    /\ act.c.op \in Seeded
    /\ act.c.fn \in FillFns
    /\ Len(tr[act.t]) = 1
    /\ Server(act) = act.c.fn

ZeroPrefix(pre, n) == [i \in 1..BufCap |-> IF i <= n THEN 0 ELSE pre[i]]

\* C4: fail-closed fallback.  A randombytes call in a context whose slot is
\* Empty zeroes exactly out[0..outlen-1], leaves every byte from outlen on
\* as it was (the whole buffer when outlen = 0), invokes no fill function and
\* advances no generator, and leaves the slot Empty.
C4_FailClosedFallback ==
    [][\A t \in Threads :
          (act'.kind = "fill" /\ act'.t = t /\ tls_fill[t] = NULL) =>
              /\ act'.out = ZeroPrefix(act'.pre, act'.len)
              /\ act'.invoked = << >>
              /\ gen' = gen
              /\ tls_fill' = tls_fill]_vars

C4_Witness ==
    /\ act.kind = "fill"
    /\ act.invoked = << >>
    /\ tls_fill[act.t] = NULL
    /\ act.len > 0
    /\ act.len < BufCap
    /\ act.pre[BufCap] # 0
    /\ act.out[BufCap] = act.pre[BufCap]

\* C5: installed dispatch.  A randombytes call in a context whose slot holds
\* f invokes f exactly once, with the caller's buffer and length, and the
\* buffer on return is exactly what f wrote into the caller's buffer: the
\* shim writes nothing of its own.
C5_InstalledDispatch ==
    [][\A t \in Threads :
          (act'.kind = "fill" /\ act'.t = t /\ tls_fill[t] # NULL) =>
              LET f == tls_fill[t]
                  w == FillWrite(f, gen[t][f], act'.pre, act'.len)
              IN  /\ act'.invoked = << <<f, act'.pre, act'.len>> >>
                  /\ act'.out = w.buf
                  /\ gen' = [gen EXCEPT ![t][f] = w.pos]]_vars

C5_Witness ==
    /\ act.kind = "fill"
    /\ act.c = NoCall
    /\ act.invoked # << >>
    /\ act.len > 0
    /\ act.len < BufCap
    /\ act.out[1] # 0
    /\ act.out[BufCap] = act.pre[BufCap]

\* C6: verification leaves the slot alone.  Neither step of a verify call
\* (entry, return) changes the slot, the last installation or a generator of
\* any context, and no fill request is ever issued on behalf of a verify
\* call.
C6_VerifyLeavesSlot ==
    [][\A t \in Threads :
          (act'.t = t /\ act'.c.op = "verify") =>
              /\ act'.kind \in {"call", "return"}
              /\ tls_fill' = tls_fill
              /\ inst' = inst
              /\ gen' = gen]_vars

C6_Witness ==
    /\ act.kind = "return"
    /\ act.c.op = "verify"
    /\ act.c.entry \in FillFns
    /\ tls_fill[act.t] = act.c.entry

\* C7 as stated: once a seeded keypair or sign call with fill function f has
\* returned, the slot of the calling context no longer holds f.
C7_Original ==
    (act.kind = "return" /\ act.c.op \in Seeded /\ act.c.fn # NULL) =>
        tls_fill[act.t] # act.c.fn

\* C7 amended: the wrappers never clear the slot.  When a seeded keypair or
\* sign call with fill function f returns, the slot of the calling context
\* still holds f, and f is what the context installed last.
C7_SlotKeepsFillAfterReturn ==
    (act.kind = "return" /\ act.c.op \in Seeded) =>
        /\ tls_fill[act.t] = act.c.fn
        /\ inst[act.t] = act.c.fn

C7_Witness ==
    /\ act.kind = "return"
    /\ act.c.op \in Seeded
    /\ act.c.fn \in FillFns
    /\ Len(act.tr) >= 1
    /\ tls_fill[act.t] = act.c.fn

\* C8 as stated: once the slot of a context is Installed, no call takes it
\* back to Empty.
C8_Original ==
    [][\A t \in Threads : tls_fill[t] # NULL => tls_fill'[t] # NULL]_vars

\* C8 amended: every slot starts Empty and changes only by a set made in its
\* own context (tt_set_randombytes or the set of a seeded wrapper), which
\* stores the argument: Empty -> Installed and Installed -> Installed when
\* the argument is a function, Installed -> Empty when the argument is NULL.
\* Verify, randombytes and a routine's return never change it.
C8_SlotStateMachine ==
    /\ \A t \in Threads : tls_fill[t] = NULL
    /\ [][\A t \in Threads :
             tls_fill'[t] # tls_fill[t] =>
                 /\ act'.t = t
                 /\ \/ act'.kind = "set"
                    \/ act'.kind = "call" /\ act'.c.op \in Seeded
                 /\ tls_fill'[t] = act'.c.fn]_vars

C8_Witness ==
    /\ act.kind = "set"
    /\ act.c.fn = NULL
    /\ tls_fill[act.t] = NULL
    /\ inst[Other(act.t)] \in FillFns
    /\ tls_fill[Other(act.t)] \in FillFns

\* C9: fallback equivalence.  A seeded keypair or sign call that runs with
\* the slot Empty returns the same outputs and status, and hands its routine
\* the same sequence of buffers, as the same call run with the installed
\* fill function that writes outlen zero bytes on every request.
C9_FallbackEquivalence ==
    (/\ act.kind = "return"
     /\ act.c.op \in Seeded
     /\ act.c.entry = NULL
     /\ tls_fill[act.t] = NULL) =>
        LET z == SeqRun([act.c EXCEPT !.fn = "fz"])
        IN  /\ act.res = z.res
            /\ act.tr = z.tr

C9_Witness ==
    /\ act.kind = "return"
    /\ act.c.op = "sign"
    /\ act.c.fn = NULL
    /\ act.c.entry = NULL
    /\ Len(act.tr) = 2
    /\ act.res.status = 0

\* C10: determinism.  A keypair run whose fill function produces the same
\* byte stream as that of an earlier keypair run returns the same pk, sk and
\* status as the earlier run, whatever the slot held before either run.
C10_Determinism ==
    (/\ act.kind = "return"
     /\ act.c.op = "keypair"
     /\ pin.phase = "done"
     /\ act.c.fn # NULL
     /\ IdenticalStreams(act.c.fn, act.c.gen0[act.c.fn], pin.fn, pin.p)) =>
        /\ act.res.out = pin.res.out
        /\ act.res.status = pin.res.status

C10_Witness ==
    /\ act.kind = "return"
    /\ act.c.op = "keypair"
    /\ pin.phase = "done"
    /\ act.c.fn \in FillFns \ {pin.fn}
    /\ IdenticalStreams(act.c.fn, act.c.gen0[act.c.fn], pin.fn, pin.p)
    /\ pin.diff
    /\ pin.was \in FillFns
    /\ Len(act.tr) = 2

\* C11: status propagation without retry.  When a wrapper returns, it has
\* invoked its PQClean routine exactly once, with the caller's arguments, and
\* the value it returns is the status of that one invocation, zero or not;
\* the return itself installs nothing.
C11_StatusPropagation ==
    [][act'.kind = "return" =>
          /\ act'.c.runs = 1
          /\ act'.args = [op |-> act'.c.op, m |-> act'.c.m, key |-> act'.c.key,
                          sig |-> act'.c.sig]
          /\ act'.res = OpaqueResult(act'.args, act'.tr)
          /\ act'.ret = act'.res.status
          /\ tls_fill' = tls_fill
          /\ inst' = inst]_vars

C11_Witness ==
    /\ act.kind = "return"
    /\ act.c.op = "sign"
    /\ act.c.key = "bad"
    /\ act.c.fn \in FillFns
    /\ act.ret = -1
    /\ act.c.runs = 1

\* C12: overwrite, not queue.  The slot of a context holds exactly the
\* argument of the most recent set made in that context (NULL before any),
\* and a fill request invokes at most one function, which is that argument:
\* after set(f) then set(g) requests are served by g, and f is not invoked.
C12_OverwriteNotQueue ==
    /\ \A t \in Threads :
          tls_fill[t] = IF inst[t] = "none" THEN NULL ELSE inst[t]
    /\ act.kind = "fill" =>
          /\ Len(act.invoked) <= 1
          /\ act.invoked # << >> => act.invoked[1][1] = inst[act.t]

C12_Witness ==
    /\ act.kind = "fill"
    /\ act.c = NoCall
    /\ act.len = 1
    /\ gen[act.t]["f1"] = 1
    /\ inst[act.t] = "f2"
    /\ act.invoked = << <<"f2", act.pre, 1>> >>

\* C13 as stated: every callback issued while a seeded call with fill
\* function f is in progress is served by f.
C13_Original ==
    (/\ act.kind = "fill"
     /\ act.c.op \in Seeded
     /\ act.c.fn # NULL) => Server(act) = act.c.fn

\* C13 amended: no stale or empty slot during an operation.  A callback
\* issued while a seeded call with a non-null fill function f is in progress
\* is served by f, not by the function of an earlier call and not by the
\* zero fallback, as long as no fill function invoked earlier during that call
\* has itself made a set or a seeded call.
C13_NoStaleSlot ==
    (/\ act.kind = "fill"
     /\ act.c.op \in Seeded
     /\ act.c.fn # NULL
     /\ act.c.re = "none") =>
        /\ Server(act) = act.c.fn
        /\ act.invoked = << <<act.c.fn, act.pre, act.len>> >>

C13_Witness ==
    /\ act.kind = "fill"
    /\ act.c.op = "sign"
    /\ act.c.fn = "f2"
    /\ act.c.re = "none"
    /\ gen[act.t]["f1"] = 1
    /\ Len(tr[act.t]) = 2
    /\ Server(act) = "f2"

C15_NoNullCall ==
    /\ act.kind = "fill" =>
          \A i \in 1..Len(act.invoked) : act.invoked[i][1] # NULL
    /\ (act.kind \in {"set", "call"} /\ act.c.op # "verify" /\ act.c.fn = NULL) =>
          tls_fill[act.t] = NULL
    /\ (act.kind = "fill" /\ act.c.op \in Seeded /\ act.c.fn = NULL) =>
          /\ tls_fill[act.t] = NULL
          /\ act.invoked = << >>
          /\ act.out = ZeroPrefix(act.pre, act.len)

C15_Witness ==
    /\ act.kind = "fill"
    /\ act.c.op = "keypair"
    /\ act.c.fn = NULL
    /\ act.len = SeedLen
    /\ act.invoked = << >>
    /\ gen[act.t]["f1"] = 1
    /\ tls_fill[act.t] = NULL

\* C16: serving bytes does not change the slot.  A fill request, through
\* either entry point, served by the zero fallback or by a fill function that
\* makes no set of its own, leaves the slot and the last installation of every
\* context as they were; two consecutive callbacks of one seeded call are
\* then served by the same source; and the slot of a context changes only in
\* a set, in the entry of a seeded wrapper, or while a fill function that
\* makes a set of its own is running.
C16_ServingKeepsSlot ==
    [][\A t \in Threads :
          /\ (act'.kind = "fill" /\ act'.t = t /\ tls_fill[t] \notin ReentrantFns) =>
                /\ tls_fill' = tls_fill
                /\ inst' = inst
          /\ (/\ act.kind = "fill" /\ act.t = t /\ act.c.op \in Seeded
              /\ act'.kind = "fill" /\ act'.t = t /\ act'.c.op \in Seeded
              /\ Server(act) \notin ReentrantFns) =>
                Server(act') = Server(act)
          /\ tls_fill'[t] # tls_fill[t] =>
                /\ act'.t = t
                /\ \/ act'.kind = "set"
                   \/ act'.kind = "call" /\ act'.c.op \in Seeded
                   \/ act'.kind = "fill" /\ tls_fill[t] \in ReentrantFns]_vars

C16_Witness ==
    /\ act.kind = "fill"
    /\ act.c.op = "sign"
    /\ act.c.re = "none"
    /\ Len(tr[act.t]) = 2
    /\ act.len = SeedLen
    /\ Server(act) = "f1"
    /\ tls_fill[act.t] = "f1"
    /\ inst[act.t] = "f1"

\* C17: no save and restore on re-entrant use.  When a fill function
\* invoked by a callback of a seeded call installs g, by a set or by a seeded
\* call of its own, the slot holds g when that callback returns; every later
\* callback of the outer call is served by the function installed last, not
\* by the function the outer call was given; and the slot still holds it
\* when the outer call has returned.
C17_NoRestore ==
    [][\A t \in Threads :
          /\ (act'.kind = "fill" /\ act'.t = t /\ call'[t].re # call[t].re) =>
                /\ tls_fill'[t] = call'[t].re
                /\ inst'[t] = call'[t].re
          /\ (act'.kind = "fill" /\ act'.t = t /\ call[t].re # "none") =>
                /\ Server(act') = call[t].re
                /\ tls_fill'[t] = call'[t].re
          /\ (act'.kind = "return" /\ act'.t = t /\ call[t].re # "none") =>
                /\ act'.c.re = call[t].re
                /\ tls_fill'[t] = call[t].re]_vars

C17_Witness ==
    /\ act.kind = "return"
    /\ act.c.op = "keypair"
    /\ act.c.fn = "fk"
    /\ act.c.re = "f1"
    /\ Len(act.tr) = 2
    /\ act.tr[1][1] = 1
    /\ act.tr[2][1] = 2
    /\ tls_fill[act.t] = "f1"

====
